---- MODULE Spec2Model ----
(***************************************************************************)
(* Model of src/image.rs: the VipsImage handle (a raw pointer to a native  *)
(* image object plus an optional list of kept-alive handles), its three    *)
(* construction paths, its accessors, kill, keepalive, cleanup, the        *)
(* derived Clone and the Drop implementation.                              *)
(*                                                                         *)
(* The native engine is modelled by what this layer can observe of it:     *)
(* per object the kill flag, the reference this layer acquired, the        *)
(* number of g_object_unref calls issued on it, and whether a call was     *)
(* made on an object whose reference was already given back (undefined     *)
(* behaviour, whose outcome is either that the process goes on or that it  *)
(* aborts inside the call).                                                *)
(***************************************************************************)
EXTENDS Integers, Sequences, FiniteSets, TLC

\* ---------------------------------------------------------------- bounds
MaxObj      == 2     \* native objects the engine may allocate in a run
MaxSlots    == 2     \* owned handle variables the caller may hold
MaxNodes    == 2     \* handle values alive at once (clones included)
MaxCleanups == 1     \* explicit cleanup() calls in a run
MaxClones   == 1     \* clone() calls in a run

\* the null pointer (std::ptr::null_mut)
NULL == 0

Objs  == 1..MaxObj
Slots == 1..MaxSlots

VARIABLES
    handles,    \* the handle values the caller owns, in binding order
    nextObj,    \* number of native objects allocated so far
    killed,     \* obj -> kill flag of the native object
    refs,       \* obj -> references this layer still holds on the object
    released,   \* obj -> number of g_object_unref calls issued on the object
    crashed,    \* the process aborted inside a call on a released object
    calls,      \* native calls issued by the last operation, in order
    op,         \* the last operation, its inputs and its result
    rekilled,   \* kill() was called on an object already killed (history)
    cleanups,   \* number of explicit cleanup() calls so far (history)
    cleaned,    \* indices of the handles that had cleanup() called on them
    clones      \* number of clone() calls so far (history)

vars == <<handles, nextObj, killed, refs, released, crashed, calls, op,
          rekilled, cleanups, cleaned, clones>>

\* ------------------------------------------------------------ the handle
\* struct VipsImage(*mut CVipsImage, Option<Vec<VipsImage>>):
\* some = FALSE is None, some = TRUE is Some(kids)
VipsImage(p, some, kids) == [ptr |-> p, some |-> some, kids |-> kids]

RECURSIVE NodeCountSeq(_)
RECURSIVE NodeCount(_)
\* number of handle values in a handle and its kept-alive list, recursively
NodeCount(h) == 1 + NodeCountSeq(h.kids)
NodeCountSeq(s) ==
    IF s = <<>> THEN 0 ELSE NodeCount(Head(s)) + NodeCountSeq(Tail(s))

RECURSIVE OccSeq(_, _)
RECURSIVE Occ(_, _)
\* number of handle values in h (recursively) that wrap the object p
Occ(h, p) == (IF h.ptr = p THEN 1 ELSE 0) + OccSeq(h.kids, p)
OccSeq(s, p) ==
    IF s = <<>> THEN 0 ELSE Occ(Head(s), p) + OccSeq(Tail(s), p)

RECURSIVE TotalFrom(_, _)
\* handle values p is wrapped by in the slots i..MaxSlots
TotalFrom(i, p) ==
    IF i > MaxSlots THEN 0
    ELSE (IF i \in DOMAIN handles THEN Occ(handles[i], p) ELSE 0)
         + TotalFrom(i + 1, p)

RECURSIVE NodesFrom(_)
NodesFrom(i) ==
    IF i > MaxSlots THEN 0
    ELSE (IF i \in DOMAIN handles THEN NodeCount(handles[i]) ELSE 0)
         + NodesFrom(i + 1)

\* handle values alive in the program
TotalNodes == NodesFrom(1)
\* handle values alive in the program that wrap p
Wrapping(p) == TotalFrom(1, p)

RECURSIVE AllPtrsSeq(_)
RECURSIVE AllPtrs(_)
\* the pointers wrapped by h and by its kept-alive handles, recursively
AllPtrs(h) == {h.ptr} \cup AllPtrsSeq(h.kids)
AllPtrsSeq(s) ==
    IF s = <<>> THEN {} ELSE AllPtrs(Head(s)) \cup AllPtrsSeq(Tail(s))

RECURSIVE PairsSeq(_, _)
RECURSIVE Pairs(_)
\* the (parent pointer, child pointer) pairs of h, recursively
Pairs(h) == PairsSeq(h.ptr, h.kids)
PairsSeq(p, s) ==
    IF s = <<>> THEN {}
    ELSE {<<p, Head(s).ptr>>} \cup Pairs(Head(s)) \cup PairsSeq(p, Tail(s))

\* -------------------------------------------------------- native engine
Call(f, p) == [f |-> f, obj |-> p]

NativeState ==
    [killed |-> killed, refs |-> refs, released |-> released,
     nextObj |-> nextObj, crashed |-> crashed, log |-> <<>>]

\* a call on a null pointer or on an object whose last reference is gone
Dangling(st, p) == p = NULL \/ st.refs[p] = 0

\* undefined behaviour: the call returns, or the process aborts inside it
Fault(st, abort) == [st EXCEPT !.crashed = abort]

\* effect of one native call; abort chooses the outcome of undefined behaviour
Step(c, st0, abort) ==
    LET st == [st0 EXCEPT !.log = Append(@, c)]
        p  == c.obj
    IN  CASE c.f = "new" ->
                \* a native constructor: a non-null result is a fresh object
                \* holding the one reference handed to the caller
                IF p = NULL THEN st
                ELSE [st EXCEPT !.refs[p] = 1, !.nextObj = p]
          [] c.f = "vips_image_set_kill" ->
                IF Dangling(st, p) THEN Fault(st, abort)
                ELSE [st EXCEPT !.killed[p] = TRUE]
          [] c.f = "g_object_unref" ->
                IF p = NULL THEN Fault(st, abort)
                ELSE IF st.refs[p] = 0
                     THEN Fault([st EXCEPT !.released[p] = @ + 1], abort)
                     ELSE [st EXCEPT !.released[p] = @ + 1, !.refs[p] = @ - 1]
          [] OTHER ->
                \* a read of the object (accessors, source of a derivation)
                IF Dangling(st, p) THEN Fault(st, abort) ELSE st

RECURSIVE Exec(_, _, _)
\* the calls of one operation, in order; nothing runs after an abort
Exec(cs, st, abort) ==
    IF cs = <<>> \/ st.crashed THEN st
    ELSE Exec(Tail(cs), Step(Head(cs), st, abort), abort)

Commit(st) ==
    /\ killed'   = st.killed
    /\ refs'     = st.refs
    /\ released' = st.released
    /\ nextObj'  = st.nextObj
    /\ crashed'  = st.crashed
    /\ calls'    = st.log

\* the results a native constructor may hand back: null or a fresh object
NativeResults == {NULL} \cup (IF nextObj < MaxObj THEN {nextObj + 1} ELSE {})

\* ------------------------------------------------------------- operators
\* kill(&self): vips_image_set_kill(self.0, 1)
kill_unref(h) ==
    <<Call("vips_image_set_kill", h.ptr), Call("g_object_unref", h.ptr)>>
kill(h) == <<Call("vips_image_set_kill", h.ptr)>>

\* cleanup(&self): kill, then g_object_unref unless the pointer is null
cleanup_swapped(h) ==
    (IF h.ptr # NULL THEN <<Call("g_object_unref", h.ptr)>> ELSE <<>>)
    \o <<Call("vips_image_set_kill", h.ptr)>>
cleanup(h) ==
    kill(h) \o
    (IF h.ptr # NULL THEN <<Call("g_object_unref", h.ptr)>> ELSE <<>>)

RECURSIVE DropSeq(_)
RECURSIVE DropCalls(_)
\* dropping a handle value: Drop::drop (cleanup) runs first, then the fields
\* are dropped, the kept-alive vector element by element in order
DropCalls(h) == cleanup(h) \o DropSeq(h.kids)
DropSeq(s) ==
    IF s = <<>> THEN <<>> ELSE DropCalls(Head(s)) \o DropSeq(Tail(s))

\* keepalive(&mut self, image): create the list on first use, push at the end
keepalive_prepend(self, image) ==
    [self EXCEPT !.some = TRUE, !.kids = <<image>> \o @]
keepalive_push(self, image) ==
    [self EXCEPT !.some = TRUE, !.kids = Append(@, image)]

RECURSIVE CloneSeq(_)
RECURSIVE Clone(_)
\* derive(Clone): the pointer is copied as is (no g_object_ref), the
\* kept-alive vector is cloned element by element
Clone(h) == VipsImage(h.ptr, h.some, CloneSeq(h.kids))
CloneSeq(s) ==
    IF s = <<>> THEN <<>> ELSE <<Clone(Head(s))>> \o CloneSeq(Tail(s))

\* the null check of new_from_file and new_from_image
load_result_unchecked(image) == "Ok"
load_result(image) == IF image = NULL THEN "ImageLoadError" ELSE "Ok"

\* the check of new_from_svg: result != 0 || output_image.is_null()
svg_result_and(result, output_image) ==
    IF result # 0 /\ output_image = NULL THEN "ImageLoadError" ELSE "Ok"
svg_result(result, output_image) ==
    IF result # 0 \/ output_image = NULL THEN "ImageLoadError" ELSE "Ok"

\* ------------------------------------------------------------ bookkeeping
\* the sequence without its i-th element
RemoveAt(seq, i) ==
    [j \in 1..(Len(seq) - 1) |-> IF j < i THEN seq[j] ELSE seq[j + 1]]
\* the handle h is bound to the new variable s
Put(s, h) == Append(handles, h)
\* the variable s is gone (dropped or moved away)
Remove(s) == RemoveAt(handles, s)
\* the indices of i after the variable s is gone
Shift(i, s) == {IF t > s THEN t - 1 ELSE t : t \in i \ {s}}

Op(name, s, arg, native, status, ret, result) ==
    [name |-> name, slot |-> s, arg |-> arg, native |-> native,
     status |-> status, ret |-> ret, result |-> result]

\* a new handle is bound to the next variable, if the caller has one left
FreeSlot(s) == s = Len(handles) + 1 /\ s \in Slots

Constructors ==
    {"new_from_file", "new_from_svg", "new_from_image", "new_from_self"}

Init ==
    /\ handles  = <<>>
    /\ nextObj  = 0
    /\ killed   = [p \in Objs |-> FALSE]
    /\ refs     = [p \in Objs |-> 0]
    /\ released = [p \in Objs |-> 0]
    /\ crashed  = FALSE
    /\ calls    = <<>>
    /\ op       = Op("init", 0, 0, FALSE, 0, NULL, "Ok")
    /\ rekilled = FALSE
    /\ cleanups = 0
    /\ cleaned  = {}
    /\ clones   = 0

\* --------------------------------------------------------------- actions
\* new_from_file(filename, options) -> Result<Self>, bound to the free slot s
new_from_file(s) ==
    /\ ~crashed
    /\ FreeSlot(s)
    /\ \E fnameOk \in BOOLEAN :
         IF ~fnameOk
         THEN \* c_string(filename) failed: returned before any native call
              /\ op' = Op("new_from_file", s, 0, FALSE, 0, NULL, "StringError")
              /\ calls' = <<>>
              /\ UNCHANGED <<handles, nextObj, killed, refs, released,
                             crashed, rekilled, cleanups, cleaned, clones>>
         ELSE \E image \in NativeResults :
              LET res == load_result(image)
                  st  == Exec(<<Call("new", image)>>, NativeState, FALSE)
              IN  /\ Commit(st)
                  /\ op' = Op("new_from_file", s, 0, TRUE, 0, image, res)
                  /\ handles' = IF res = "Ok"
                                THEN Put(s, VipsImage(image, FALSE, <<>>))
                                ELSE handles
                  /\ UNCHANGED <<rekilled, cleanups, cleaned, clones>>

\* new_from_svg(filename, options) -> Result<Self>, bound to the free slot s
new_from_svg(s) ==
    /\ ~crashed
    /\ FreeSlot(s)
    /\ \E fnameOk \in BOOLEAN :
         IF ~fnameOk
         THEN /\ op' = Op("new_from_svg", s, 0, FALSE, 0, NULL, "StringError")
              /\ calls' = <<>>
              /\ UNCHANGED <<handles, nextObj, killed, refs, released,
                             crashed, rekilled, cleanups, cleaned, clones>>
         ELSE \E result \in {0, -1}, output_image \in NativeResults :
              LET res == svg_result(result, output_image)
                  st  == Exec(<<Call("new", output_image)>>, NativeState, FALSE)
              IN  /\ Commit(st)
                  /\ op' = Op("new_from_svg", s, 0, TRUE, result,
                              output_image, res)
                  /\ handles' = IF res = "Ok"
                                THEN Put(s, VipsImage(output_image, FALSE, <<>>))
                                ELSE handles
                  /\ UNCHANGED <<rekilled, cleanups, cleaned, clones>>

\* the body of new_from_image, shared with new_from_self
Derive(name, s, src) ==
    /\ ~crashed
    /\ FreeSlot(s)
    /\ src \in DOMAIN handles
    /\ \E abort \in BOOLEAN :
         LET rd == Exec(<<Call("read", handles[src].ptr)>>, NativeState, abort)
         IN  \E image \in (IF rd.crashed THEN {NULL} ELSE NativeResults) :
             LET st  == Exec(<<Call("new", image)>>, rd, abort)
                 res == load_result(image)
             IN  /\ Commit(st)
                 /\ op' = Op(name, s, src, TRUE, 0, image,
                             IF st.crashed THEN "aborted" ELSE res)
                 /\ handles' = IF res = "Ok" /\ ~st.crashed
                               THEN Put(s, VipsImage(image, FALSE, <<>>))
                               ELSE handles
                 /\ UNCHANGED <<rekilled, cleanups, cleaned, clones>>

\* new_from_image(image, bands) -> Result<Self>
new_from_image(s, src) == Derive("new_from_image", s, src)

\* new_from_self(&self, bands) = Self::new_from_image(self, bands)
new_from_self(s, src) == Derive("new_from_self", s, src)

\* get_width, get_height, get_dimensions, get_bands, get_page_count,
\* has_property, get_blob, is_transparent: reads of the native object
accessor(s) ==
    /\ ~crashed
    /\ s \in DOMAIN handles
    /\ \E abort \in BOOLEAN :
         LET st == Exec(<<Call("read", handles[s].ptr)>>, NativeState, abort)
         IN  /\ Commit(st)
             /\ op' = Op("accessor", s, 0, TRUE, 0, handles[s].ptr,
                         IF st.crashed THEN "aborted" ELSE "Ok")
    /\ UNCHANGED <<handles, rekilled, cleanups, cleaned, clones>>

\* image.kill()
Kill(s) ==
    /\ ~crashed
    /\ s \in DOMAIN handles
    /\ \E abort \in BOOLEAN :
         LET st == Exec(kill(handles[s]), NativeState, abort)
         IN  /\ Commit(st)
             /\ op' = Op("kill", s, 0, TRUE, 0, handles[s].ptr,
                         IF st.crashed THEN "aborted" ELSE "Ok")
    /\ rekilled' = (rekilled \/ (handles[s].ptr \in Objs /\ killed[handles[s].ptr]))
    /\ UNCHANGED <<handles, cleanups, cleaned, clones>>

\* parent.keepalive(child): the child is moved into the parent's list
keepalive(s, c) ==
    /\ ~crashed
    /\ s \in DOMAIN handles
    /\ c \in DOMAIN handles
    /\ s # c
    /\ handles' = RemoveAt([handles EXCEPT
                               ![s] = keepalive_push(handles[s], handles[c])],
                            c)
    /\ op' = Op("keepalive", s, c, FALSE, 0, handles[c].ptr, "Ok")
    /\ calls' = <<>>
    /\ cleaned' = Shift(cleaned, c)
    /\ UNCHANGED <<nextObj, killed, refs, released, crashed, rekilled,
                   cleanups, clones>>

\* let t = handles[s].clone()
clone(s, t) ==
    /\ ~crashed
    /\ s \in DOMAIN handles
    /\ FreeSlot(t)
    /\ TotalNodes + NodeCount(handles[s]) <= MaxNodes
    /\ clones < MaxClones
    /\ handles' = Put(t, Clone(handles[s]))
    /\ op' = Op("clone", t, s, FALSE, 0, handles[s].ptr, "Ok")
    /\ calls' = <<>>
    /\ clones' = clones + 1
    /\ UNCHANGED <<nextObj, killed, refs, released, crashed, rekilled,
                   cleanups, cleaned>>

\* image.cleanup() called explicitly (pub(crate)); the handle stays in scope
Cleanup(s) ==
    /\ ~crashed
    /\ s \in DOMAIN handles
    /\ cleanups < MaxCleanups
    /\ \E abort \in BOOLEAN :
         LET st == Exec(cleanup(handles[s]), NativeState, abort)
         IN  /\ Commit(st)
             /\ op' = Op("cleanup", s, 0, TRUE, 0, handles[s].ptr,
                         IF st.crashed THEN "aborted" ELSE "Ok")
    /\ cleanups' = cleanups + 1
    /\ cleaned' = cleaned \cup {s}
    /\ UNCHANGED <<handles, rekilled, clones>>

\* the handle in slot s goes out of scope: Drop::drop, then its fields
Drop(s) ==
    /\ ~crashed
    /\ s \in DOMAIN handles
    /\ \E abort \in BOOLEAN :
         LET st == Exec(DropCalls(handles[s]), NativeState, abort)
         IN  /\ Commit(st)
             /\ op' = Op("drop", s, 0, TRUE, 0, handles[s].ptr,
                         IF st.crashed THEN "aborted" ELSE "Ok")
    /\ handles' = Remove(s)
    /\ cleaned' = Shift(cleaned, s)
    /\ UNCHANGED <<rekilled, cleanups, clones>>

Next ==
    \/ \E s \in Slots : new_from_file(s)
    \/ \E s \in Slots : new_from_svg(s)
    \/ \E s \in Slots, src \in Slots : new_from_image(s, src)
    \/ \E s \in Slots, src \in Slots : new_from_self(s, src)
    \/ \E s \in Slots : accessor(s)
    \/ \E s \in Slots : Kill(s)
    \/ \E s \in Slots, c \in Slots : keepalive(s, c)
    \/ \E s \in Slots, t \in Slots : clone(s, t)
    \/ \E s \in Slots : Cleanup(s)
    \/ \E s \in Slots : Drop(s)

Spec == Init /\ [][Next]_vars

\* ------------------------------------------------------------ properties
\* the pointers wrapped by the handle values alive in the program
LivePtrs == UNION {AllPtrs(handles[s]) : s \in DOMAIN handles}
\* the (parent, kept-alive child) pointer pairs alive in the program
LivePairs == UNION {Pairs(handles[s]) : s \in DOMAIN handles}
\* the native objects allocated so far
Allocated == 1..nextObj

\* C1: the reference a construction acquired is released (g_object_unref)
\* at most once, whatever sequence of keepalive, kill, clone, cleanup and
\* drop is applied to the handles.
C1_ReleasedAtMostOnce == \A p \in Objs : released[p] <= 1

\* C2: every handle value wraps a non-null pointer, and a construction whose
\* native constructor returned null returned ImageLoadError and bound no
\* handle.
C2_NonNullHandles ==
    /\ \A p \in LivePtrs : p # NULL
    /\ (op.name \in Constructors /\ op.native /\ op.ret = NULL /\ ~crashed)
         => (op.result = "ImageLoadError" /\ op.slot \notin DOMAIN handles)

C2_Witness ==
    /\ op.name = "new_from_image" /\ op.native /\ op.ret = NULL
    /\ op.result = "ImageLoadError" /\ ~crashed
    /\ op.slot \notin DOMAIN handles
    /\ handles # <<>>

\* C3: kill only sets the kill flag: it issues no release, leaves the
\* reference count and the handles alone, and a kill on an object already
\* killed changes nothing; dropping a handle issues exactly one release per
\* handle value destroyed, however many times kill was called before.
C3_KillThenDropReleasesOnce ==
    [][ ~crashed' =>
        /\ op'.name = "kill" =>
             /\ released' = released
             /\ refs' = refs
             /\ handles' = handles
             /\ \A q \in Objs : killed'[q] = (killed[q] \/
                                   (q = op'.ret /\ refs[q] > 0))
             /\ (op'.ret \in Objs /\ killed[op'.ret]) => killed' = killed
        /\ op'.name = "drop" =>
             \A q \in Objs :
                released'[q] = released[q] + Occ(handles[op'.slot], q)
      ]_vars

C3_Witness ==
    \E p \in Objs :
       /\ op.name = "drop" /\ op.ret = p /\ ~crashed
       /\ rekilled /\ nextObj = 1 /\ cleanups = 0 /\ clones = 0
       /\ released[p] = 1
       /\ Wrapping(p) = 0

\* C4: no kept-alive child's reference is released before the reference of
\* the handle that keeps it alive.
C4_ChildNotReleasedBeforeParent ==
    \A pr \in LivePairs : released[pr[2]] > 0 => released[pr[1]] > 0

\* C5: new_from_svg returns a handle exactly when the status is zero and the
\* output reference is non-null; with a nonzero status or a null output (one
\* of them is enough) it returns ImageLoadError and binds no handle.
C5_SvgChecksBoth ==
    (op.name = "new_from_svg" /\ op.native) =>
        /\ op.result = "Ok" <=> (op.status = 0 /\ op.ret # NULL)
        /\ op.result # "Ok" =>
             (op.result = "ImageLoadError" /\ op.slot \notin DOMAIN handles)
        /\ op.result = "Ok" =>
             (op.slot \in DOMAIN handles
              /\ handles[op.slot] = VipsImage(op.ret, FALSE, <<>>))

C5_Witness ==
    /\ op.name = "new_from_svg" /\ op.native
    /\ op.status # 0 /\ op.ret # NULL
    /\ op.result = "ImageLoadError"
    /\ op.slot \notin DOMAIN handles

\* C6: live -> killed -> released is one-directional: a kill flag once set
\* stays set, a released object never holds a reference again, a released
\* object is a killed one, and every release an operation issues comes
\* directly after the kill signal on the same object.
C6_Lifecycle ==
    [][ /\ \A p \in Objs :
             /\ killed[p] => killed'[p]
             /\ released[p] > 0 =>
                  (released'[p] >= released[p] /\ refs'[p] = 0)
             /\ released'[p] > 0 => killed'[p]
        /\ \A i \in DOMAIN calls' :
             calls'[i].f = "g_object_unref" =>
                /\ i > 1
                /\ calls'[i - 1] = Call("vips_image_set_kill", calls'[i].obj)
      ]_vars

C6_Witness ==
    \E p \in Objs :
       /\ op.name = "drop" /\ op.ret = p
       /\ killed[p]
       /\ released[p] = 1 /\ refs[p] = 0
       /\ calls = <<Call("vips_image_set_kill", p), Call("g_object_unref", p)>>

\* C7: cleanup is idempotent: once cleanup has run on a handle, a further
\* cleanup of the same handle (explicit, or the one its destruction makes)
\* issues no further g_object_unref.
C7_CleanupIdempotent ==
    [][ (op'.name \in {"cleanup", "drop"} /\ op'.slot \in cleaned) =>
           released'[handles[op'.slot].ptr] = released[handles[op'.slot].ptr]
      ]_vars

\* C8: a successful construction binds a handle without kept-alive list and
\* leaves every other handle (the source of a derivation included) as it
\* was, a failed one changes no handle; the value of a handle changes only
\* through keepalive, which keeps its pointer and its registered children
\* in order and appends exactly the given handle at the end.
C8_Frame ==
    [][ ~crashed' =>
        /\ (op'.name \in Constructors /\ op'.result = "Ok") =>
              handles' = Append(handles, VipsImage(op'.ret, FALSE, <<>>))
        /\ (op'.name \in Constructors /\ op'.result # "Ok") =>
              handles' = handles
        /\ op'.name = "keepalive" =>
              /\ op'.slot \in DOMAIN handles
              /\ op'.arg \in DOMAIN handles
              /\ handles' = RemoveAt(
                    [handles EXCEPT ![op'.slot] =
                        VipsImage(handles[op'.slot].ptr, TRUE,
                                  Append(handles[op'.slot].kids,
                                         handles[op'.arg]))],
                    op'.arg)
        /\ op'.name = "clone" =>
              \A s \in DOMAIN handles : handles'[s] = handles[s]
        /\ op'.name = "drop" => handles' = RemoveAt(handles, op'.slot)
        /\ op'.name \in {"accessor", "kill", "cleanup"} => handles' = handles
      ]_vars

C8_Witness ==
    /\ op.name = "keepalive"
    /\ \E s \in DOMAIN handles :
          /\ Len(handles[s].kids) = 2
          /\ handles[s].kids[1] # handles[s].kids[2]
          /\ handles[s].kids[2].ptr = op.ret

\* C9: every handle value that still exists (clones and kept-alive handles
\* included) refers to a native object whose reference has not been
\* released.
C9_NoUseAfterRelease ==
    \A p \in LivePtrs : p # NULL /\ released[p] = 0

\* C10: every native object that still holds the reference its constructor
\* handed out is wrapped by a handle value of the program.
C10_NoLeak ==
    \A p \in Allocated : refs[p] > 0 => p \in LivePtrs

====
